---------------------------- MODULE Spec2Model ----------------------------
(***************************************************************************)
(* The ELO rating engine of data_analysis/elo_team_performance_analysis.py *)
(* (ELOTeamPerformanceAnalyzer.load_data and .calculate_historical_elo).   *)
(*                                                                         *)
(* Arithmetic.  The Python code works on IEEE doubles; TLA+ has integers   *)
(* only.  Every real quantity is therefore held in fixed point:            *)
(*   - an expected or actual score is an integer number of 1/ExpScale,     *)
(*   - a margin-of-victory multiplier an integer number of 1/MovScale,     *)
(*   - a rating or rating change an integer number of 1/RatingUnit points, *)
(*     RatingUnit = ExpScale * MovScale, so that the product               *)
(*     k_factor * mov_multiplier * (actual - expected) is exact.           *)
(* 10**x and np.log are computed from tables (Pow10Table, LnTable).        *)
(* A SQL NULL / pandas NaN is the value NULL; a rating that became NaN is  *)
(* the value NaN.                                                          *)
(***************************************************************************)
EXTENDS Integers, Sequences, FiniteSets, TLC

\* ------------------------------------------------------------------ bounds
\* rows in the games table
MaxGames == 3
\* start_date ranges over 1..MaxDate
MaxDate == 2
\* the largest score a team of the model's games makes
MaxScore == 3
\* margins 0..MaxMargin are examined by the multiplier properties
MaxMargin == 9

\* --------------------------------------------------------- representation
NULL == -1
NaN == -2
ExpScale == 1000
MovScale == 100
RatingUnit == ExpScale * MovScale

\* ------------------------------------------------------- program constants
KFactor == 32
HomeFieldAdvantage == 65
ElosPerDecade == 400
Power5Seed == 1550
OtherSeed == 1500
power5_conferences == {"SEC", "Big Ten", "Big 12", "ACC", "Pac-12"}

\* ---------------------------------------------------------- the database
\* teams table: id -> conference ("" is a NULL conference).  Teams 1..3
\* play the model's games, the others only sit in the table.
TeamConference ==
  <<"SEC", "MAC", "", "Big Ten", "Big 12", "ACC", "Pac-12", "Sun Belt">>
TeamIds == 1..Len(TeamConference)
\* a team id that no row of the teams table carries
UnknownTeam == Len(TeamConference) + 1

Row(h, a, hs, as, d, c) ==
  [home_team_id |-> h, away_team_id |-> a, home_team_score |-> hs,
   away_team_score |-> as, start_date |-> d, completed |-> c]

\* <<home_team_id, away_team_id>>; no team plays itself
Matchups == {<<1, 2>>, <<2, 3>>, <<3, 1>>}
\* <<home_team_score, away_team_score>>: a tie, a home win, an away win
ScorePairs == {<<1, 1>>, <<MaxScore, 0>>, <<0, 1>>}

\* rows of finished games between registered teams
ValidRows ==
  {Row(m[1], m[2], s[1], s[2], d, TRUE) :
     m \in Matchups, s \in ScorePairs, d \in 1..MaxDate}

\* rows the games table can also hold: a score missing, a game not
\* completed, a team id with no row in the teams table
DefectRows ==
  { Row(1, 2, NULL, 0, 1, TRUE),
    Row(2, 3, 1, NULL, 1, TRUE),
    Row(3, 1, MaxScore, 0, 1, FALSE),
    Row(1, 2, NULL, NULL, MaxDate, FALSE),
    Row(1, UnknownTeam, MaxScore, 0, 1, TRUE),
    Row(UnknownTeam, 3, 0, 1, 1, TRUE) }

GameRows == ValidRows \cup DefectRows

RECURSIVE SubsetsUpTo(_, _)
\* the subsets of S of at most k elements
SubsetsUpTo(S, k) ==
  IF k = 0 THEN {{}}
  ELSE LET P == SubsetsUpTo(S, k - 1)
       IN  P \cup {T \cup {x} : T \in P, x \in S}

VARIABLES
  dbGames,      \* the games table: a set of rows
  pc,           \* position of run_comprehensive_analysis
  games_df,     \* self.games_df: sequence of rows
  teams_df,     \* self.teams_df: set of team ids (conference by TeamConference)
  team_elos,    \* team_elos: team id -> rating
  elo_history,  \* self.elo_history: team id -> sequence of ratings
  idx,          \* position of the loop over games_df.iterrows()
  applied,      \* history: row -> number of times the loop body ran on it
  lastDate      \* history: team id -> start_date of the game that wrote
                \* the team's current rating (0: the seed)

\* prediction_algorithm.py, RicksPicksPredictionEngine.generate_prediction
VARIABLES
  context,      \* the arguments of the call
  prediction    \* the dict the call returned

elovars_data == <<dbGames, games_df, teams_df, team_elos, elo_history, idx,
                  applied, lastDate>>
elovars == <<dbGames, pc, games_df, teams_df, team_elos, elo_history, idx,
             applied, lastDate>>
\* prediction_algorithm.py, RicksPicksPredictionEngine shared by callers
VARIABLES
  engine,       \* self: conference_power_ratings and scoring_weights
  callers       \* caller -> frame of its call of generate_prediction

\* comprehensive_prediction_system.py, generate_game_prediction
VARIABLES
  game_row,            \* the row of upcoming_games the call is made with
  historical_insights, \* self.historical_insights
  game_prediction      \* the dict the call returned

\* fetch_cfb_data.py, fetch_cfb_data
VARIABLES
  fetched_games,    \* response of games_api.get_games
  betting_lines,    \* response of betting_api.get_lines
  processed_games   \* processed_games

enginevars == <<engine, callers>>
gamevars == <<game_row, historical_insights, game_prediction>>
fetchvars == <<fetched_games, betting_lines, processed_games>>
predvars == <<context, prediction, enginevars, gamevars, fetchvars>>
vars == <<dbGames, pc, games_df, teams_df, team_elos, elo_history, idx,
          applied, lastDate, context, prediction, engine, callers, game_row,
          historical_insights, game_prediction, fetched_games, betting_lines,
          processed_games>>

\* no call of generate_prediction is in progress
NoCallers == callers = <<>>

\* no prediction engine in this run
NoEngine == engine = <<>> /\ NoCallers

\* no game of upcoming_games is scored in this run
NoGame ==
  game_row = <<>> /\ historical_insights = <<>> /\ game_prediction = <<>>

\* nothing is fetched in this run
NoFetch == fetched_games = <<>> /\ betting_lines = <<>> /\ processed_games = <<>>

\* the rating engine is not part of this run
NoElo ==
  /\ dbGames = {}
  /\ games_df = <<>>
  /\ teams_df = {}
  /\ team_elos = <<>>
  /\ elo_history = <<>>
  /\ idx = 0
  /\ applied = <<>>
  /\ lastDate = <<>>

\* ------------------------------------------------------------- arithmetic
Max(a, b) == IF a >= b THEN a ELSE b
Abs(a) == IF a >= 0 THEN a ELSE -a

RECURSIVE TenTo(_)
TenTo(n) == IF n = 0 THEN 1 ELSE 10 * TenTo(n - 1)

\* 10^(j/16) * 10000, j = 0..16
Pow10Table ==
  <<10000, 11548, 13335, 15399, 17783, 20535, 23714, 27384, 31623,
    36517, 42170, 48697, 56234, 64938, 74989, 86596, 100000>>

\* 10 ** (x / 400) * 10000 for x a rating difference in 1/RatingUnit
\* points: the decade is split in 16 table steps with linear interpolation
Pow10(x) ==
  LET decade == ElosPerDecade * RatingUnit
      q == x \div decade
      r == x % decade
      step == decade \div 16
      j == r \div step
      f == (r % step) \div 1000
      base == Pow10Table[j + 1]
                + ((Pow10Table[j + 2] - Pow10Table[j + 1]) * f) \div (step \div 1000)
  IN  IF q > 4 THEN 1000000000
      ELSE IF q >= 0 THEN base * TenTo(q)
      ELSE IF q >= -5 THEN base \div TenTo(-q)
      ELSE 0

\* ln(m) * MovScale, m = 1..12
LnTable == <<0, 69, 110, 139, 161, 179, 195, 208, 220, 230, 240, 248>>

\* np.log(m): -inf at 0 is a value below every multiplier
NpLog(m) == IF m >= 1 THEN LnTable[m] ELSE -1000 * MovScale

\* --------------------------------------------------- calculate_historical_elo
\* InitialElo with the power-conference test lost
InitialElo_Flat(conference) == OtherSeed * RatingUnit

\* line 78
InitialElo(conference) ==
  IF conference \in power5_conferences
    THEN Power5Seed * RatingUnit
    ELSE OtherSeed * RatingUnit

\* line 95, the bonus in rating points
AdjustedHomeElo(home_elo, bonus) == home_elo + bonus * RatingUnit

\* line 98: 1 / (1 + 10**((away_elo - adjusted_home_elo) / 400)), rounded
\* to the nearest 1/ExpScale
HomeExpected(home_elo, away_elo, bonus) ==
  LET den == 10000 + Pow10(away_elo - AdjustedHomeElo(home_elo, bonus))
  IN  (2 * ExpScale * 10000 + den) \div (2 * den)

\* AwayExpected computed by its own logistic curve from the home rating
\* without the home-field bonus
AwayExpected_Unadjusted(home_elo, away_elo, bonus) ==
  LET den == 10000 + Pow10(home_elo - away_elo)
  IN  (2 * ExpScale * 10000 + den) \div (2 * den)

\* line 99
AwayExpected(home_elo, away_elo, bonus) ==
  ExpScale - HomeExpected(home_elo, away_elo, bonus)

\* HomeActual with a tie counted as a home win (>= for >)
HomeActual_TieAsWin(home_score, away_score) ==
  IF home_score >= away_score THEN ExpScale ELSE 0

\* lines 102-107
HomeActual(home_score, away_score) ==
  IF home_score > away_score THEN ExpScale
  ELSE IF away_score > home_score THEN 0
  ELSE ExpScale \div 2

\* AwayActual taking the home team's result for the away team's
AwayActual_HomeResult(home_score, away_score) ==
  IF home_score > away_score THEN ExpScale
  ELSE IF away_score > home_score THEN 0
  ELSE ExpScale \div 2

AwayActual(home_score, away_score) ==
  IF home_score > away_score THEN 0
  ELSE IF away_score > home_score THEN ExpScale
  ELSE ExpScale \div 2

\* MovMultiplier without max(margin, 1)
MovMultiplier_NoFloor(margin) == NpLog(margin) + MovScale

\* lines 110-111
MovMultiplier(margin) == NpLog(Max(margin, 1)) + MovScale

\* line 114
HomeChange(home_elo, away_elo, home_score, away_score, k_factor, bonus) ==
  k_factor * MovMultiplier(Abs(home_score - away_score))
    * (HomeActual(home_score, away_score)
         - HomeExpected(home_elo, away_elo, bonus))

\* AwayChange without the margin-of-victory multiplier
AwayChange_NoMov(home_elo, away_elo, home_score, away_score, k_factor, bonus) ==
  k_factor * MovScale
    * (AwayActual(home_score, away_score)
         - AwayExpected(home_elo, away_elo, bonus))

\* line 115
AwayChange(home_elo, away_elo, home_score, away_score, k_factor, bonus) ==
  k_factor * MovMultiplier(Abs(home_score - away_score))
    * (AwayActual(home_score, away_score)
         - AwayExpected(home_elo, away_elo, bonus))

\* a NaN score (a NULL of the table) or a NaN rating makes every
\* comparison false and every arithmetic result NaN
IsNaNGame(game, elos) ==
  \/ game.home_team_score = NULL
  \/ game.away_team_score = NULL
  \/ elos[game.home_team_id] = NaN
  \/ elos[game.away_team_id] = NaN

\* UpdatedElos with the away change computed after the home rating was
\* written, from the new home rating
UpdatedElos_Sequential(elos, game) ==
  LET h == game.home_team_id
      a == game.away_team_id
      dh == HomeChange(elos[h], elos[a], game.home_team_score,
                       game.away_team_score, KFactor, HomeFieldAdvantage)
      e1 == [elos EXCEPT ![h] = IF IsNaNGame(game, elos) THEN NaN ELSE @ + dh]
      da == AwayChange(e1[h], elos[a], game.home_team_score,
                       game.away_team_score, KFactor, HomeFieldAdvantage)
  IN  [e1 EXCEPT ![a] = IF IsNaNGame(game, elos) THEN NaN ELSE @ + da]

\* lines 117-118: the ratings after the loop body ran on game
UpdatedElos(elos, game) ==
  LET h == game.home_team_id
      a == game.away_team_id
      dh == HomeChange(elos[h], elos[a], game.home_team_score,
                       game.away_team_score, KFactor, HomeFieldAdvantage)
      da == AwayChange(elos[h], elos[a], game.home_team_score,
                       game.away_team_score, KFactor, HomeFieldAdvantage)
      e1 == [elos EXCEPT ![h] = IF IsNaNGame(game, elos) THEN NaN ELSE @ + dh]
  IN  [e1 EXCEPT ![a] = IF IsNaNGame(game, elos) THEN NaN ELSE @ + da]

\* ------------------------------------------------------------- load_data
\* JoinTeams as LEFT JOINs: every game is kept
JoinTeams_Left(rows) == rows

\* lines 43-44: the inner joins keep a game only if both teams have a row
JoinTeams(rows) ==
  {g \in rows : g.home_team_id \in TeamIds /\ g.away_team_id \in TeamIds}

\* WhereCompleted with the two IS NOT NULL tests lost
WhereCompleted_FlagOnly(rows) == {g \in rows : g.completed}

\* lines 45-47
WhereCompleted(rows) ==
  {g \in rows : /\ g.completed
                /\ g.home_team_score # NULL
                /\ g.away_team_score # NULL}

\* all orders of the rows
Orderings(rows) ==
  {s \in [1..Cardinality(rows) -> rows] :
     \A i, j \in 1..Cardinality(rows) : i # j => s[i] # s[j]}

\* ORDER BY g.start_date DESC, as the sibling queries of the repository do
OrderByStartDate_Desc(rows) ==
  {s \in Orderings(rows) :
     \A i \in 1..(Len(s) - 1) : s[i].start_date >= s[i + 1].start_date}

\* line 48: ORDER BY g.start_date; rows of equal date come in any order
OrderByStartDate(rows) ==
  {s \in Orderings(rows) :
     \A i \in 1..(Len(s) - 1) : s[i].start_date <= s[i + 1].start_date}

\* a history that keeps only its latest snapshot up to date
AppendSnapshot_Overwrite(history, rating) ==
  [history EXCEPT ![Len(history)] = rating]

\* lines 121-122: elo_history[team].append(rating)
AppendSnapshot(history, rating) == Append(history, rating)

\* ---------------------------------------------------------------- actions
Init ==
  /\ dbGames \in SubsetsUpTo(GameRows, MaxGames)
  /\ pc = "start"
  /\ games_df = <<>>
  /\ teams_df = {}
  /\ team_elos = <<>>
  /\ elo_history = <<>>
  /\ idx = 0
  /\ applied = [g \in dbGames |-> 0]
  /\ lastDate = [t \in TeamIds |-> 0]
  /\ context = <<>>
  /\ prediction = <<>>
  /\ NoEngine
  /\ NoGame
  /\ NoFetch

\* load_data, lines 28-67
LoadData ==
  /\ pc = "start"
  /\ \E s \in OrderByStartDate(WhereCompleted(JoinTeams(dbGames))) :
       games_df' = s
  /\ teams_df' = TeamIds
  /\ pc' = "loaded"
  /\ UNCHANGED <<dbGames, team_elos, elo_history, idx, applied, lastDate>>
  /\ UNCHANGED predvars

\* calculate_historical_elo, lines 73-81
InitElo ==
  /\ pc = "loaded"
  /\ team_elos' = [t \in teams_df |-> InitialElo(TeamConference[t])]
  /\ elo_history' = [t \in teams_df |-> <<InitialElo(TeamConference[t])>>]
  /\ idx' = 1
  /\ pc' = "fold"
  /\ UNCHANGED <<dbGames, games_df, teams_df, applied, lastDate>>
  /\ UNCHANGED predvars

\* one pass of the loop body, lines 84-122; a team id that is no key of
\* team_elos raises KeyError at line 91 or 92 and ends the run
ProcessGame ==
  /\ pc = "fold"
  /\ idx <= Len(games_df)
  /\ LET game == games_df[idx]
         h == game.home_team_id
         a == game.away_team_id
     IN  IF h \in DOMAIN team_elos /\ a \in DOMAIN team_elos
           THEN /\ team_elos' = UpdatedElos(team_elos, game)
                /\ elo_history' =
                     [elo_history EXCEPT
                        ![h] = AppendSnapshot(@, UpdatedElos(team_elos, game)[h]),
                        ![a] = AppendSnapshot(@, UpdatedElos(team_elos, game)[a])]
                /\ applied' = [applied EXCEPT ![game] = @ + 1]
                /\ lastDate' = [lastDate EXCEPT ![h] = game.start_date,
                                                ![a] = game.start_date]
                /\ idx' = idx + 1
                /\ pc' = pc
           ELSE /\ pc' = "KeyError"
                /\ UNCHANGED <<team_elos, elo_history, applied, lastDate, idx>>
  /\ UNCHANGED <<dbGames, games_df, teams_df>>
  /\ UNCHANGED predvars

\* lines 124-125: the loop is over, team_elos is returned
Finish ==
  /\ pc = "fold"
  /\ idx > Len(games_df)
  /\ pc' = "done"
  /\ UNCHANGED <<dbGames, games_df, teams_df, team_elos, elo_history, idx,
                 applied, lastDate>>
  /\ UNCHANGED predvars

Next == LoadData \/ InitElo \/ ProcessGame \/ Finish

\* run_comprehensive_analysis: load_data, then calculate_historical_elo
Spec == Init /\ [][Next]_vars

\* calculate_historical_elo called on frames its caller has put in
\* self.games_df and self.teams_df: completed games of registered teams in
\* any order (dbGames holds the rows of the frame)
InitApi ==
  /\ dbGames \in SubsetsUpTo(ValidRows, MaxGames)
  /\ games_df \in Orderings(dbGames)
  /\ teams_df = TeamIds
  /\ pc = "loaded"
  /\ team_elos = <<>>
  /\ elo_history = <<>>
  /\ idx = 0
  /\ applied = [g \in dbGames |-> 0]
  /\ lastDate = [t \in TeamIds |-> 0]
  /\ context = <<>>
  /\ prediction = <<>>
  /\ NoEngine
  /\ NoGame
  /\ NoFetch

NextApi == InitElo \/ ProcessGame \/ Finish

SpecApi == InitApi /\ [][NextApi]_vars

\* =========================================================================
\* prediction_algorithm.py, RicksPicksPredictionEngine.  Points are held in
\* 1/PointScale of a point; an argument that is None is the value None.
PointScale == 1000
None == -1000000
Min(a, b) == IF a <= b THEN a ELSE b

\* lines 33-45, in tenths of a point
conference_power_ratings ==
  [c \in {"SEC", "Big Ten", "Big 12", "ACC", "Pac-12", "Mountain West",
          "American Athletic", "Sun Belt", "Conference USA", "Mid-American",
          "FBS Independents"} |->
     CASE c = "SEC" -> 57
       [] c = "Big Ten" -> 41
       [] c = "Big 12" -> 30
       [] c = "ACC" -> 29
       [] c = "Pac-12" -> 5
       [] c = "Mountain West" -> -2
       [] c = "American Athletic" -> -8
       [] c = "Sun Belt" -> 12
       [] c = "Conference USA" -> 15
       [] c = "Mid-American" -> -11
       [] c = "FBS Independents" -> -45]

\* lines 23-30, in hundredths
scoring_weights ==
  [weather_impact |-> 15, conference_strength |-> 25,
   home_field_advantage |-> 10, recent_performance |-> 20,
   head_to_head |-> 15, betting_line_value |-> 15]

\* line 110
power5 == {"SEC", "Big Ten", "Big 12", "ACC", "Pac-12"}

\* temperature tiers whose cold tier runs through 40 degrees
TemperatureImpact_Through40(temperature) ==
  IF temperature = None THEN 0
  ELSE IF temperature < 32 THEN -(5 * PointScale) \div 2
  ELSE IF temperature <= 40 THEN -PointScale
  ELSE IF temperature > 85 THEN -PointScale \div 2
  ELSE 0

\* lines 61-70
TemperatureImpact(temperature) ==
  IF temperature = None THEN 0
  ELSE IF temperature < 32 THEN -(5 * PointScale) \div 2
  ELSE IF temperature < 40 THEN -PointScale
  ELSE IF temperature > 85 THEN -PointScale \div 2
  ELSE 0

\* wind tiers whose moderate tier starts at 15 mph
WindImpact_From15(wind_speed) ==
  IF wind_speed = None THEN 0
  ELSE IF wind_speed > 20 THEN -2 * PointScale
  ELSE IF wind_speed >= 15 THEN -PointScale
  ELSE 0

\* lines 73-79
WindImpact(wind_speed) ==
  IF wind_speed = None THEN 0
  ELSE IF wind_speed > 20 THEN -2 * PointScale
  ELSE IF wind_speed > 15 THEN -PointScale
  ELSE 0

\* lines 82-84: None and 0 are falsy
PrecipitationImpact(precipitation) ==
  IF precipitation # None /\ precipitation # 0 /\ precipitation > 0
    THEN -(3 * PointScale) \div 2
    ELSE 0

\* an outdoor factor that keeps only the largest penalty
WeatherScore_WorstOnly(temperature, wind_speed, is_dome, precipitation) ==
  IF is_dome
    THEN 4 * PointScale
    ELSE Min(TemperatureImpact(temperature),
             Min(WindImpact(wind_speed), PrecipitationImpact(precipitation)))

\* a dome bonus that is added on top of the outdoor penalties
WeatherScore_DomeAdds(temperature, wind_speed, is_dome, precipitation) ==
  (IF is_dome THEN 4 * PointScale ELSE 0)
    + TemperatureImpact(temperature) + WindImpact(wind_speed)
    + PrecipitationImpact(precipitation)

\* calculate_weather_factor, lines 53-90: the 'score' of the dict
WeatherScore(temperature, wind_speed, is_dome, precipitation) ==
  IF is_dome
    THEN 0 + 4 * PointScale
    ELSE 0 + TemperatureImpact(temperature) + WindImpact(wind_speed)
           + PrecipitationImpact(precipitation)

\* a lookup that rates an unlisted conference like the weakest listed one
PowerRating_UnlistedWeakest(conference) ==
  IF conference \in DOMAIN engine.conference_power_ratings
    THEN engine.conference_power_ratings[conference] * (PointScale \div 10)
    ELSE -45 * (PointScale \div 10)

\* self.conference_power_ratings.get(conference, 0), lines 97-98
PowerRating(conference) ==
  IF conference \in DOMAIN engine.conference_power_ratings
    THEN engine.conference_power_ratings[conference] * (PointScale \div 10)
    ELSE 0

\* a conference factor whose flat adjustment exists for the home side only
ConferenceScore_HomeBonusOnly(home_conference, away_conference) ==
  LET differential == PowerRating(home_conference) - PowerRating(away_conference)
      factor_score == (differential * 3) \div 10
  IN  IF home_conference \in power5 /\ away_conference \notin power5
        THEN factor_score + (3 * PointScale) \div 2
        ELSE factor_score

\* calculate_conference_factor, lines 97-125: the 'score' of the dict
ConferenceScore(home_conference, away_conference) ==
  LET differential == PowerRating(home_conference) - PowerRating(away_conference)
      factor_score == (differential * 3) \div 10
      home_p5 == home_conference \in power5
      away_p5 == away_conference \in power5
  IN  IF home_p5 /\ ~away_p5 THEN factor_score + (3 * PointScale) \div 2
      ELSE IF away_p5 /\ ~home_p5 THEN factor_score - (3 * PointScale) \div 2
      ELSE factor_score

\* calculate_home_field_factor, lines 132-146
HomeFieldScore(is_neutral_site) ==
  IF is_neutral_site THEN 0 ELSE 2 * PointScale

\* calculate_betting_line_value, lines 154-176
BettingLineValue(vegas_spread, predicted_spread) ==
  IF vegas_spread = None THEN 0
  ELSE LET line_differential == Abs(predicted_spread - vegas_spread)
       IN  IF line_differential >= 3 * PointScale
             THEN Min(line_differential \div 2, 4 * PointScale)
             ELSE 0

\* a confidence level taken from the size of the spread alone
Confidence_MagnitudeOnly(total_score, factor_count) ==
  IF Abs(total_score) > 6 * PointScale THEN "High"
  ELSE IF Abs(total_score) > 3 * PointScale THEN "Medium"
  ELSE "Low"

\* lines 205-213
Confidence(total_score, factor_count) ==
  IF Abs(total_score) > 6 * PointScale /\ factor_count >= 3 THEN "High"
  ELSE IF Abs(total_score) > 3 * PointScale /\ factor_count >= 2 THEN "Medium"
  ELSE "Low"

\* a truth test that lets an absent spread through
Truthy_NotZero(vegas_spread) == vegas_spread # 0

\* a spread that is None or 0 is falsy (lines 224, 227, 236)
Truthy(vegas_spread) == vegas_spread # None /\ vegas_spread # 0

\* lines 222-227 without the 1.5-point margin
RecommendedBet_NoMargin(total_score, vegas_spread) ==
  IF total_score > 0
    THEN IF Truthy(vegas_spread) /\ total_score > vegas_spread
           THEN "Take home" ELSE "None"
    ELSE IF Truthy(vegas_spread) /\ Abs(total_score) > Abs(vegas_spread)
           THEN "Take away" ELSE "None"

\* lines 222-227; "None" is no recommendation
RecommendedBet(total_score, vegas_spread) ==
  IF total_score > 0
    THEN IF Truthy(vegas_spread)
              /\ total_score > vegas_spread + (3 * PointScale) \div 2
           THEN "Take home" ELSE "None"
    ELSE IF Truthy(vegas_spread)
              /\ Abs(total_score) > Abs(vegas_spread) + (3 * PointScale) \div 2
           THEN "Take away" ELSE "None"

\* line 236
Edge(total_score, vegas_spread) ==
  IF Truthy(vegas_spread) THEN Abs(total_score - vegas_spread) ELSE None

\* a final prediction that leaves the betting value out
TotalScore_BaseOnly(base_prediction, betting_value) == base_prediction

\* line 202
TotalScore(base_prediction, betting_value) == base_prediction + betting_value

\* generate_prediction, lines 190-243
GeneratePredictionResult(c) ==
  LET weather == WeatherScore(c.temperature, c.wind_speed, c.is_dome,
                              c.precipitation)
      conference == ConferenceScore(c.home_conference, c.away_conference)
      home_field == HomeFieldScore(c.is_neutral_site)
      base_prediction == home_field + conference + weather
      betting_value == BettingLineValue(c.vegas_spread, base_prediction)
      total_score == TotalScore(base_prediction, betting_value)
      factor_count ==
        Cardinality({i \in 1..4 :
          <<weather, conference, home_field, betting_value>>[i] # 0})
  IN  [spread |-> total_score,
       confidence |-> Confidence(total_score, factor_count),
       recommended_bet |-> RecommendedBet(total_score, c.vegas_spread),
       vegas_line |-> c.vegas_spread,
       edge |-> Edge(total_score, c.vegas_spread),
       factor_breakdown |->
         [weather |-> weather, conference |-> conference,
          home_field |-> home_field, betting_value |-> betting_value]]

\* the arguments the calls of the model are made with
Temperatures == {None, 20, 31, 32, 39, 40, 41, 85, 86}
WindSpeeds == {None, 10, 15, 16, 20, 21}
Precipitations == {None, 0, 2}
Conferences == {"SEC", "Pac-12", "Mid-American", "FBS Independents", "Ivy"}
VegasSpreads ==
  {None, 0, -7 * PointScale, -3 * PointScale, -2 * PointScale, PointScale,
   (7 * PointScale) \div 2, 10 * PointScale}

Contexts ==
  [home_conference : Conferences, away_conference : Conferences,
   temperature : Temperatures, wind_speed : WindSpeeds, is_dome : BOOLEAN,
   vegas_spread : VegasSpreads, precipitation : Precipitations,
   is_neutral_site : BOOLEAN]

\* __init__, lines 18-45
EngineInit ==
  [conference_power_ratings |-> conference_power_ratings,
   scoring_weights |-> scoring_weights]

InitPredict ==
  /\ context \in Contexts
  /\ prediction = <<>>
  /\ pc = "call"
  /\ engine = EngineInit
  /\ NoCallers
  /\ NoElo
  /\ NoGame
  /\ NoFetch

\* one call of generate_prediction
GeneratePrediction ==
  /\ pc = "call"
  /\ prediction' = GeneratePredictionResult(context)
  /\ pc' = "returned"
  /\ UNCHANGED <<context, elovars_data, enginevars, gamevars, fetchvars>>

NextPredict == GeneratePrediction

SpecPredict == InitPredict /\ [][NextPredict]_vars

\* -------------------------------------------------------------------------
\* one engine object scoring contexts for several callers, each call running
\* the statements of generate_prediction one after the other
NumCallers == 2
MaxCalls == 2
Callers == 1..NumCallers

\* the contexts the callers score
SharedContexts ==
  { [home_conference |-> "SEC", away_conference |-> "Ivy",
     temperature |-> None, wind_speed |-> None, is_dome |-> TRUE,
     vegas_spread |-> -3 * PointScale, precipitation |-> None,
     is_neutral_site |-> FALSE],
    [home_conference |-> "Ivy", away_conference |-> "SEC",
     temperature |-> 20, wind_speed |-> 21, is_dome |-> FALSE,
     vegas_spread |-> None, precipitation |-> 2,
     is_neutral_site |-> FALSE],
    [home_conference |-> "SEC", away_conference |-> "SEC",
     temperature |-> None, wind_speed |-> None, is_dome |-> FALSE,
     vegas_spread |-> 10 * PointScale, precipitation |-> None,
     is_neutral_site |-> FALSE],
    [home_conference |-> "Mid-American", away_conference |-> "Pac-12",
     temperature |-> 40, wind_speed |-> 15, is_dome |-> FALSE,
     vegas_spread |-> 0, precipitation |-> 0,
     is_neutral_site |-> TRUE] }

\* the frame of a call: its arguments, its position and its locals
Frame(c, n) ==
  [pc |-> "weather", context |-> c, calls |-> n,
   weather_factor |-> None, conference_factor |-> None,
   home_field_factor |-> None, betting_value |-> None, result |-> <<>>]

\* a caller that has made no call yet
IdleFrame ==
  [pc |-> "idle", context |-> <<>>, calls |-> 0,
   weather_factor |-> None, conference_factor |-> None,
   home_field_factor |-> None, betting_value |-> None, result |-> <<>>]

\* a table that dict.get has filled in for a missing key
TableAfterGet_SetDefault(table, conference) ==
  IF conference \in DOMAIN table
    THEN table
    ELSE [c \in DOMAIN table \cup {conference} |->
            IF c = conference THEN 0 ELSE table[c]]

\* lines 97-98: dict.get(conference, 0) leaves the table as it is
TableAfterGet(table, conference) == table

\* lines 202-243: the returned dict, from the four factor scores
PredictionDict(vegas_spread, weather, conference, home_field, betting_value) ==
  LET base_prediction == home_field + conference + weather
      total_score == base_prediction + betting_value
      factor_count ==
        Cardinality({i \in 1..4 :
          <<weather, conference, home_field, betting_value>>[i] # 0})
  IN  [spread |-> total_score,
       confidence |-> Confidence(total_score, factor_count),
       recommended_bet |-> RecommendedBet(total_score, vegas_spread),
       vegas_line |-> vegas_spread,
       edge |-> Edge(total_score, vegas_spread),
       factor_breakdown |->
         [weather |-> weather, conference |-> conference,
          home_field |-> home_field, betting_value |-> betting_value]]

InitShared ==
  /\ pc = "shared"
  /\ engine = EngineInit
  /\ callers = [w \in Callers |-> IdleFrame]
  /\ context = <<>>
  /\ prediction = <<>>
  /\ NoElo
  /\ NoGame
  /\ NoFetch

sharedframe == <<pc, context, prediction, elovars_data, gamevars, fetchvars>>

\* a caller calls generate_prediction (line 178)
CallGeneratePrediction ==
  \E w \in Callers, c \in SharedContexts :
    /\ pc = "shared"
    /\ callers[w].pc \in {"idle", "returned"}
    /\ callers[w].calls < MaxCalls
    /\ callers' = [callers EXCEPT ![w] = Frame(c, callers[w].calls + 1)]
    /\ UNCHANGED <<engine, sharedframe>>

\* line 191
WeatherStep ==
  \E w \in Callers :
    /\ callers[w].pc = "weather"
    /\ callers' =
         [callers EXCEPT
            ![w].weather_factor =
               WeatherScore(callers[w].context.temperature,
                            callers[w].context.wind_speed,
                            callers[w].context.is_dome,
                            callers[w].context.precipitation),
            ![w].pc = "conference"]
    /\ UNCHANGED <<engine, sharedframe>>

\* line 192
ConferenceStep ==
  \E w \in Callers :
    /\ callers[w].pc = "conference"
    /\ callers' =
         [callers EXCEPT
            ![w].conference_factor =
               ConferenceScore(callers[w].context.home_conference,
                               callers[w].context.away_conference),
            ![w].pc = "home_field"]
    /\ engine' =
         [engine EXCEPT
            !.conference_power_ratings =
               TableAfterGet(
                 TableAfterGet(@, callers[w].context.home_conference),
                 callers[w].context.away_conference)]
    /\ UNCHANGED sharedframe

\* line 193
HomeFieldStep ==
  \E w \in Callers :
    /\ callers[w].pc = "home_field"
    /\ callers' =
         [callers EXCEPT
            ![w].home_field_factor =
               HomeFieldScore(callers[w].context.is_neutral_site),
            ![w].pc = "betting"]
    /\ UNCHANGED <<engine, sharedframe>>

\* lines 196-199
BettingStep ==
  \E w \in Callers :
    /\ callers[w].pc = "betting"
    /\ callers' =
         [callers EXCEPT
            ![w].betting_value =
               BettingLineValue(callers[w].context.vegas_spread,
                                callers[w].home_field_factor
                                  + callers[w].conference_factor
                                  + callers[w].weather_factor),
            ![w].pc = "return"]
    /\ UNCHANGED <<engine, sharedframe>>

\* lines 202-243
ReturnStep ==
  \E w \in Callers :
    /\ callers[w].pc = "return"
    /\ callers' =
         [callers EXCEPT
            ![w].result =
               PredictionDict(callers[w].context.vegas_spread,
                              callers[w].weather_factor,
                              callers[w].conference_factor,
                              callers[w].home_field_factor,
                              callers[w].betting_value),
            ![w].pc = "returned"]
    /\ UNCHANGED <<engine, sharedframe>>

NextShared ==
  \/ CallGeneratePrediction
  \/ WeatherStep
  \/ ConferenceStep
  \/ HomeFieldStep
  \/ BettingStep
  \/ ReturnStep

SpecShared == InitShared /\ [][NextShared]_vars

\* =========================================================================
\* comprehensive_prediction_system.py, RicksPicksPredictionEngine.  A column
\* of the row that is NULL in the table is NaN; points are in 1/PointScale.

\* insights.get(key, {}).get(field, default), lines 77, 108, 116, 144, 149
Insight(field, default) ==
  IF field \in DOMAIN historical_insights
    THEN historical_insights[field]
    ELSE default

\* calculate_weather_factor, lines 69-97
GameWeatherFactor(g) ==
  (IF g.is_dome THEN Insight("dome_advantage", 0) \div 2 ELSE 0)
  + (IF g.temperature = NaN THEN 0
     ELSE IF g.temperature < 40 THEN -3 * PointScale
     ELSE IF g.temperature > 85 THEN -2 * PointScale
     ELSE 0)
  + (IF g.wind_speed # NaN /\ g.wind_speed > 15
       THEN -(5 * PointScale) \div 2 ELSE 0)
  + (IF (g.precipitation # NaN /\ g.precipitation > 0)
          \/ (g.weather_condition # "NaN" /\ g.weather_condition = "Light Rain")
       THEN -(3 * PointScale) \div 2 ELSE 0)

\* lines 106-107
OtherPower4 == {"Big Ten", "Big 12", "ACC", "Pac-12"}

\* calculate_conference_factor, lines 99-123
GameConferenceFactor(g) ==
  LET sec_advantage == Insight("sec_win_pct", 50 * PointScale) - 50 * PointScale
  IN  (IF (g.home_conf = "SEC" /\ g.away_conf \in OtherPower4)
            \/ (g.away_conf = "SEC" /\ g.home_conf \in OtherPower4)
         THEN IF g.home_conf = "SEC" THEN sec_advantage \div 10
              ELSE -(sec_advantage \div 10)
         ELSE 0)
      - (IF g.home_conf = "Big Ten" \/ g.away_conf = "Big Ten"
           THEN (Insight("defensive_advantage", 0) * 3) \div 10 ELSE 0)
      + (IF g.home_conf = "Big 12" /\ g.away_conf = "Big 12"
           THEN 2 * PointScale ELSE 0)

\* an ELO factor computed from whatever the two columns hold
GameEloFactor_NoGuard(g) ==
  ((g.home_elo + 65 - g.away_elo) * PointScale) \div 25

\* calculate_elo_factor, lines 125-134
GameEloFactor(g) ==
  IF g.home_elo = NaN \/ g.away_elo = NaN THEN 0
  ELSE ((g.home_elo + 65 - g.away_elo) * PointScale) \div 25

\* calculate_betting_factors, lines 136-155; a comparison with NaN is false
GameBettingFactors(g) ==
  (IF g.spread # NaN /\ g.spread < 0
     THEN -(Insight("home_penalty", 0) \div 10) ELSE 0)
  + (IF g.home_rank # NaN \/ g.away_rank # NaN
       THEN IF g.home_rank # NaN /\ g.spread # NaN /\ g.spread < 0
              THEN -(Insight("ranked_penalty", 0) \div 10)
            ELSE IF g.away_rank # NaN /\ g.spread # NaN /\ g.spread > 0
              THEN Insight("ranked_penalty", 0) \div 10
            ELSE 0
       ELSE 0)

\* a spread that takes the ELO factor in
RickSpread_WithElo(g, weather_factor, conference_factor, elo_factor, betting_factor) ==
  g.spread + weather_factor + conference_factor + betting_factor + elo_factor

\* line 175
RickSpread(g, weather_factor, conference_factor, elo_factor, betting_factor) ==
  g.spread + weather_factor + conference_factor + betting_factor

\* lines 174-191: spread_pick (side and line) and spread_confidence
SpreadPick(g, rick_spread) ==
  IF g.spread # NaN
    THEN LET spread_edge == Abs(rick_spread - g.spread)
         IN  IF spread_edge >= (5 * PointScale) \div 2
               THEN IF rick_spread > g.spread
                      THEN [pick |-> "TAKE away", line |-> Abs(g.spread),
                            confidence |->
                              Min(85 * PointScale,
                                  60 * PointScale + spread_edge * 5)]
                      ELSE [pick |-> "TAKE home", line |-> g.spread,
                            confidence |->
                              Min(85 * PointScale,
                                  60 * PointScale + spread_edge * 5)]
               ELSE [pick |-> "NO PLAY", line |-> NaN,
                     confidence |-> 50 * PointScale]
    ELSE [pick |-> "NO SPREAD AVAILABLE", line |-> NaN,
          confidence |-> 50 * PointScale]

\* lines 194-211: total_pick (side and line) and total_confidence
TotalPick(g, weather_factor, conference_factor) ==
  IF g.over_under # NaN
    THEN LET total_adjustment == weather_factor + conference_factor \div 2
             total_edge == Abs(total_adjustment)
         IN  IF total_edge >= 3 * PointScale
               THEN [pick |-> IF total_adjustment > 0 THEN "OVER" ELSE "UNDER",
                     line |-> g.over_under,
                     confidence |->
                       Min(85 * PointScale, 60 * PointScale + total_edge * 3)]
               ELSE [pick |-> "NO PLAY", line |-> NaN,
                     confidence |-> 50 * PointScale]
    ELSE [pick |-> "NO TOTAL AVAILABLE", line |-> NaN,
          confidence |-> 50 * PointScale]

\* lines 214-224
KeyFactors(weather_factor, conference_factor, elo_factor, betting_factor) ==
  LET factors ==
        (IF Abs(weather_factor) > PointScale
           THEN <<[factor |-> "Weather", value |-> weather_factor]>>
           ELSE <<>>)
        \o (IF Abs(conference_factor) > PointScale
              THEN <<[factor |-> "Conference", value |-> conference_factor]>>
              ELSE <<>>)
        \o (IF Abs(elo_factor) > 2 * PointScale
              THEN <<[factor |-> "ELO edge", value |-> elo_factor]>>
              ELSE <<>>)
        \o (IF Abs(betting_factor) > PointScale \div 2
              THEN <<[factor |-> "Market", value |-> betting_factor]>>
              ELSE <<>>)
  IN  IF factors # <<>> THEN factors
      ELSE <<[factor |-> "Balanced matchup", value |-> NaN]>>

\* generate_rick_notes, lines 229-256
GenerateRickNotes(g) ==
  LET notes ==
        (IF g.is_dome THEN <<"Dome advantage favors scoring">>
         ELSE IF g.temperature # NaN /\ g.temperature < 40
           THEN <<"Cold weather limits offense">>
         ELSE IF g.wind_speed # NaN /\ g.wind_speed > 15
           THEN <<"High winds hurt passing game">>
         ELSE <<>>)
        \o (IF g.home_conf = "SEC" /\ g.away_conf \in OtherPower4
              THEN <<"SEC home field advantage in cross-conference">>
            ELSE IF g.home_conf = "Big Ten" \/ g.away_conf = "Big Ten"
              THEN <<"Big Ten defensive style lowers scoring">>
            ELSE IF g.home_conf = "Big 12" /\ g.away_conf = "Big 12"
              THEN <<"Big 12 shootout potential">>
            ELSE <<>>)
        \o (IF g.spread # NaN /\ g.spread < 0 /\ g.home_rank # NaN
              THEN <<"Ranked home favorites historically struggle ATS">>
              ELSE <<>>)
  IN  IF notes = <<>> THEN <<"Solid fundamental matchup">> ELSE notes

\* generate_game_prediction, lines 157-227
GenerateGamePredictionResult(g) ==
  LET weather_factor == GameWeatherFactor(g)
      conference_factor == GameConferenceFactor(g)
      elo_factor == GameEloFactor(g)
      betting_factor == GameBettingFactors(g)
      rick_spread == RickSpread(g, weather_factor, conference_factor,
                                elo_factor, betting_factor)
      spread == SpreadPick(g, rick_spread)
      total == TotalPick(g, weather_factor, conference_factor)
  IN  [game_id |-> g.id,
       home_team |-> g.home_team,
       away_team |-> g.away_team,
       vegas_spread |-> g.spread,
       vegas_total |-> g.over_under,
       spread_pick |-> [pick |-> spread.pick, line |-> spread.line],
       spread_confidence |-> spread.confidence,
       total_pick |-> [pick |-> total.pick, line |-> total.line],
       total_confidence |-> total.confidence,
       key_factors |-> KeyFactors(weather_factor, conference_factor,
                                  elo_factor, betting_factor),
       rick_notes |-> GenerateRickNotes(g)]

\* the rows of upcoming_games the calls of the model are made with
GameSpreads == {NaN, -7 * PointScale, -3 * PointScale, 3 * PointScale}
GameTotals == {NaN, 45 * PointScale}
GameTemperatures == {NaN, 30, 90}
GameWinds == {NaN, 20}
GamePrecipitations == {NaN, 2}
GameConditions == {"NaN", "Light Rain"}
GameConferences == {"SEC", "Big Ten", "Big 12", "Sun Belt"}
GameRanks == {NaN, 5}
GameElos == {NaN, 1500, 1700}

UpcomingGames ==
  [id : {1}, home_team : {"Home"}, away_team : {"Away"},
   spread : GameSpreads, over_under : GameTotals,
   temperature : GameTemperatures, wind_speed : GameWinds,
   precipitation : GamePrecipitations, weather_condition : GameConditions,
   is_dome : BOOLEAN, home_conf : GameConferences,
   away_conf : GameConferences, home_rank : GameRanks,
   away_rank : GameRanks, home_elo : GameElos, away_elo : GameElos]

\* load_historical_insights, lines 34-39: the statistics the analyzers
\* found, or no entry where an analysis had none
InsightSets ==
  { <<>>,
    [dome_advantage |-> 8 * PointScale, sec_win_pct |-> 60 * PointScale,
     defensive_advantage |-> 5 * PointScale, home_penalty |-> 6 * PointScale,
     ranked_penalty |-> 4 * PointScale] }

InitGame ==
  /\ pc = "game"
  /\ game_row \in UpcomingGames
  /\ historical_insights \in InsightSets
  /\ game_prediction = <<>>
  /\ context = <<>>
  /\ prediction = <<>>
  /\ NoEngine
  /\ NoElo
  /\ NoFetch

\* one call of generate_game_prediction
GenerateGamePrediction ==
  /\ pc = "game"
  /\ game_prediction' = GenerateGamePredictionResult(game_row)
  /\ pc' = "predicted"
  /\ UNCHANGED <<game_row, historical_insights, context, prediction,
                 elovars_data, enginevars, fetchvars>>

NextGamePrediction == GenerateGamePrediction

SpecGame == InitGame /\ [][NextGamePrediction]_vars

\* =========================================================================
\* fetch_cfb_data.py, fetch_cfb_data.  A spread or total that a line does not
\* carry is None.

\* line 31: games[:10]
ProcessLimit == 10

\* the games of the week in the response of get_games
WeekGames ==
  << [id |-> 1, home_team |-> "Home1", away_team |-> "Away1"],
     [id |-> 2, home_team |-> "Home2", away_team |-> "Away2"] >>

\* the lines one provider can quote
ProviderLines ==
  [provider : {"consensus", "Bovada"},
   spread : {None, -3 * PointScale, -7 * PointScale},
   over_under : {None, 45 * PointScale}]

\* the sequences over S of at most two elements
SeqUpTo2(S) == {<<>>} \cup {<<x>> : x \in S} \cup {<<x, y>> : x \in S, y \in S}

\* the entries of the response of get_lines: a game and its providers' lines
GameLines ==
  {[home_team |-> WeekGames[i].home_team, away_team |-> WeekGames[i].away_team,
    lines |-> l] : i \in DOMAIN WeekGames, l \in SeqUpTo2(ProviderLines)}

\* lines 33-38: the first entry of betting_lines for the game, None if none
RECURSIVE MatchLines(_, _, _)
MatchLines(g, all_lines, k) ==
  IF k > Len(all_lines) THEN <<>>
  ELSE IF all_lines[k].home_team = g.home_team
            /\ all_lines[k].away_team = g.away_team
    THEN <<all_lines[k]>>
    ELSE MatchLines(g, all_lines, k + 1)

\* the truth value of spread at line 45: None and 0 are falsy
SpreadIsFalsy(spread) == spread = None \/ spread = 0

\* lines 44-48: the loop over game_lines.lines from its k-th line on, found
\* holding spread and over_under
RECURSIVE ExtractLine(_, _, _)
ExtractLine(lines, k, found) ==
  IF k > Len(lines) THEN found
  ELSE IF lines[k].provider = "consensus" \/ SpreadIsFalsy(found.spread)
    THEN [spread |-> lines[k].spread, over_under |-> lines[k].over_under]
    ELSE ExtractLine(lines, k + 1, found)

\* lines 32-63: game_data of the i-th game (i from 0)
GameData(i, g, all_lines) ==
  LET game_lines == MatchLines(g, all_lines, 1)
      nothing == [spread |-> None, over_under |-> None]
      found == IF game_lines # <<>> /\ game_lines[1].lines # <<>>
                 THEN ExtractLine(game_lines[1].lines, 1, nothing)
                 ELSE nothing
  IN  [id |-> g.id, home_team |-> g.home_team, away_team |-> g.away_team,
       spread |-> found.spread, over_under |-> found.over_under,
       is_featured |-> (i = 0)]

\* lines 18-27: the responses are in; get_games may raise ApiException, and
\* a failure of get_lines leaves betting_lines empty
InitFetch ==
  /\ pc \in {"fetched", "ApiException"}
  /\ fetched_games = (IF pc = "fetched" THEN WeekGames ELSE <<>>)
  /\ betting_lines \in
       (IF pc = "fetched" THEN SeqUpTo2(GameLines) ELSE {<<>>})
  /\ processed_games = <<>>
  /\ context = <<>>
  /\ prediction = <<>>
  /\ NoEngine
  /\ NoElo
  /\ NoGame

fetchframe == <<context, prediction, elovars_data, enginevars, gamevars>>

\* one pass of the loop of lines 31-64
ProcessFetchedGame ==
  /\ pc = "fetched"
  /\ Len(processed_games) < Min(Len(fetched_games), ProcessLimit)
  /\ processed_games' =
       Append(processed_games,
              GameData(Len(processed_games),
                       fetched_games[Len(processed_games) + 1],
                       betting_lines))
  /\ UNCHANGED <<pc, fetched_games, betting_lines, fetchframe>>

\* lines 66-73: the result is printed
PrintResult ==
  /\ pc = "fetched"
  /\ Len(processed_games) = Min(Len(fetched_games), ProcessLimit)
  /\ pc' = "printed"
  /\ UNCHANGED <<fetched_games, betting_lines, processed_games, fetchframe>>

\* lines 75-81: the error result is printed
PrintError ==
  /\ pc = "ApiException"
  /\ pc' = "printed error"
  /\ UNCHANGED <<fetched_games, betting_lines, processed_games, fetchframe>>

NextFetch == ProcessFetchedGame \/ PrintResult \/ PrintError

SpecFetch == InitFetch /\ [][NextFetch]_vars

\* lines 52, 124-125: what a run hands to its caller, the printed number of
\* loaded games and the returned ratings
RunReport == [games |-> Len(games_df), team_elos |-> team_elos]

\* the count of skipped records in what the run reports (NULL: none)
SkippedReported ==
  IF "skipped" \in DOMAIN RunReport THEN RunReport["skipped"] ELSE NULL

\* ----------------------------------------------------------------- claims
RECURSIVE SumOver(_, _)
\* the sum of f[x] over the finite set S
SumOver(f, S) ==
  IF S = {} THEN 0
  ELSE LET x == CHOOSE y \in S : TRUE IN f[x] + SumOver(f, S \ {x})

Folding == pc = "fold" /\ idx <= Len(games_df)
Eligible(g) ==
  /\ g.completed
  /\ g.home_team_score # NULL
  /\ g.away_team_score # NULL

\* C1: the loop runs over the games in non-decreasing start_date order, and
\* when it is about to process a game no team's rating was written by a
\* game of a later date.
C1_FoldInDateOrder ==
  /\ pc \in {"loaded", "fold", "done"} =>
       \A i \in 1..(Len(games_df) - 1) :
         games_df[i].start_date <= games_df[i + 1].start_date
  /\ Folding => \A t \in TeamIds : lastDate[t] <= games_df[idx].start_date

\* a game is about to read a rating that a game of an earlier date wrote
C1_Witness ==
  /\ Folding
  /\ lastDate[games_df[idx].home_team_id] >= 1
  /\ lastDate[games_df[idx].home_team_id] < games_df[idx].start_date

\* C2: the loop body runs at most once on each game of the table, and only
\* on games that are completed with both scores present; every rating the
\* fold has written comes from such a run.
C2_AtMostOnceAndOnlyCompleted ==
  /\ \A g \in dbGames :
       /\ applied[g] <= 1
       /\ applied[g] = 1 => Eligible(g)
  /\ pc \in {"fold", "done"} =>
       SumOver([t \in TeamIds |-> Len(elo_history[t]) - 1], TeamIds)
         = 2 * SumOver(applied, dbGames)

\* the run is over: a game was applied, an incomplete one and one with a
\* missing score were not
C2_Witness ==
  /\ pc = "done"
  /\ \E g \in dbGames : applied[g] = 1
  /\ \E g \in dbGames : ~g.completed /\ applied[g] = 0
  /\ \E g \in dbGames : g.completed /\ g.home_team_score = NULL /\ applied[g] = 0

\* C3: one pass of the loop body computes the two new ratings from the two
\* pre-game ratings of the game's teams, appends exactly one rating to the
\* history of each, and leaves every other team's rating and history alone.
C3_ProcessGameFrame ==
  [][(pc = "fold" /\ idx' = idx + 1) =>
       LET game == games_df[idx]
           h == game.home_team_id
           a == game.away_team_id
       IN  /\ \A t \in TeamIds \ {h, a} :
                 /\ team_elos'[t] = team_elos[t]
                 /\ elo_history'[t] = elo_history[t]
           /\ team_elos'[h] = team_elos[h]
                + HomeChange(team_elos[h], team_elos[a], game.home_team_score,
                             game.away_team_score, 32, 65)
           /\ team_elos'[a] = team_elos[a]
                + AwayChange(team_elos[h], team_elos[a], game.home_team_score,
                             game.away_team_score, 32, 65)
           /\ elo_history'[h] = Append(elo_history[h], team_elos'[h])
           /\ elo_history'[a] = Append(elo_history[a], team_elos'[a])]_vars

\* two games were processed: teams 1 and 2 moved, team 3 did not
C3_Witness ==
  /\ pc = "fold"
  /\ idx = 3
  /\ Len(elo_history[1]) = 3
  /\ Len(elo_history[2]) = 3
  /\ Len(elo_history[3]) = 1
  /\ team_elos[1] # elo_history[1][1]

\* C4: every team starts at 1550 if its conference is one of SEC, Big Ten,
\* Big 12, ACC, Pac-12 and at 1500 otherwise (no conference included); the
\* seed stays the first entry of the history and the rating of every team
\* that has not played.
C4_Seed ==
  pc \in {"fold", "done"} =>
    \A t \in TeamIds :
      LET seed == IF TeamConference[t]
                       \in {"SEC", "Big Ten", "Big 12", "ACC", "Pac-12"}
                    THEN 1550 * RatingUnit
                    ELSE 1500 * RatingUnit
      IN  /\ elo_history[t][1] = seed
          /\ idx = 1 => team_elos[t] = seed
          /\ Len(elo_history[t]) = 1 => team_elos[t] = seed

\* the fold is over, a power-conference team and a team without conference
\* have played and left their seeds
C4_Witness ==
  /\ pc = "done"
  /\ team_elos[1] # 1550 * RatingUnit
  /\ team_elos[3] # 1500 * RatingUnit
  /\ Len(elo_history[7]) = 1

\* pre-game ratings and scores the single-game properties are examined on,
\* besides the ratings and games the fold reaches
RatingGrid == {(1300 + 50 * i) * RatingUnit + 12345 * i : i \in 0..10}
ScoreGrid == (0..MaxScore) \X (0..MaxScore)

NextGame == games_df[idx]
PreHome == team_elos[NextGame.home_team_id]
PreAway == team_elos[NextGame.away_team_id]
\* the rating changes the loop body is about to apply
DeltaHome == UpdatedElos(team_elos, NextGame)[NextGame.home_team_id] - PreHome
DeltaAway == UpdatedElos(team_elos, NextGame)[NextGame.away_team_id] - PreAway
IsTie(g) == g.home_team_score = g.away_team_score

C5_Grid ==
  \A h \in RatingGrid, a \in RatingGrid, s \in ScoreGrid :
    HomeChange(h, a, s[1], s[2], 32, 0) = -AwayChange(h, a, s[1], s[2], 32, 0)

\* C5: with a home-field bonus of 0 the home team's rating change is the
\* negation of the away team's, for the pre-game ratings and scores of every
\* game the fold processes and for every pair of ratings and scores of the
\* grid.
C5_ZeroSumNeutral ==
  /\ C5_Grid
  /\ Folding =>
       HomeChange(PreHome, PreAway, NextGame.home_team_score,
                  NextGame.away_team_score, 32, 0)
         = -AwayChange(PreHome, PreAway, NextGame.home_team_score,
                       NextGame.away_team_score, 32, 0)

\* a decided game between teams whose ratings have left their seeds, with a
\* non-zero change to negate
C5_Witness ==
  /\ Folding
  /\ ~IsTie(NextGame)
  /\ lastDate[NextGame.home_team_id] > 0
  /\ lastDate[NextGame.away_team_id] > 0
  /\ PreHome # PreAway
  /\ HomeChange(PreHome, PreAway, NextGame.home_team_score,
                NextGame.away_team_score, 32, 0) # 0

\* C6 as stated: with the bonus of 65 there is a game, of the grid or of the
\* ratings reached, whose two rating changes do not sum to 0.
C6_MassNotConserved ==
  \E h \in RatingGrid \cup (IF Folding THEN {PreHome} ELSE {}),
     a \in RatingGrid \cup (IF Folding THEN {PreAway} ELSE {}),
     s \in ScoreGrid :
    HomeChange(h, a, s[1], s[2], 32, 65) + AwayChange(h, a, s[1], s[2], 32, 65) # 0

\* C6 amended: with the bonus of 65 the two rating changes of every game
\* the fold processes sum to 0, and the sum of all ratings equals the sum of
\* the seeds at every point of the fold.
C6_MassConserved ==
  /\ Folding => DeltaHome + DeltaAway = 0
  /\ pc \in {"fold", "done"} =>
       SumOver([t \in TeamIds |-> team_elos[t] - elo_history[t][1]], TeamIds) = 0

\* the fold is over and has moved ratings
C6_Witness ==
  /\ pc = "done"
  /\ idx = MaxGames + 1
  /\ \A t \in 1..3 : team_elos[t] # elo_history[t][1]

\* C7 as stated: a tie between teams of equal pre-game rating changes
\* neither rating.
C7_TieEqualRatingsNoChange ==
  (Folding /\ IsTie(NextGame) /\ PreHome = PreAway) =>
    DeltaHome = 0 /\ DeltaAway = 0

\* C7 amended: in a tie both actual outcomes are 0.5; between teams of equal
\* pre-game rating the changes are 0 for a home-field bonus of 0, and with
\* the bonus of 65 the fold applies, the home team loses rating and the away
\* team gains as much.
C7_TieActualHalf ==
  (Folding /\ IsTie(NextGame)) =>
    /\ 2 * HomeActual(NextGame.home_team_score, NextGame.away_team_score) = ExpScale
    /\ 2 * AwayActual(NextGame.home_team_score, NextGame.away_team_score) = ExpScale
    /\ PreHome = PreAway =>
         /\ HomeChange(PreHome, PreAway, NextGame.home_team_score,
                       NextGame.away_team_score, 32, 0) = 0
         /\ AwayChange(PreHome, PreAway, NextGame.home_team_score,
                       NextGame.away_team_score, 32, 0) = 0
         /\ DeltaHome < 0
         /\ DeltaAway = -DeltaHome

\* teams 2 and 3, both at their seed of 1500, are about to play a tie
C7_Witness ==
  /\ Folding
  /\ IsTie(NextGame)
  /\ PreHome = PreAway
  /\ NextGame.home_team_id = 2

C8_Grid ==
  /\ MovMultiplier(0) = MovScale
  /\ MovMultiplier(1) = MovScale
  /\ \A m \in 0..MaxMargin :
       /\ MovMultiplier(m) >= MovScale
       /\ m < MaxMargin => MovMultiplier(m) <= MovMultiplier(m + 1)

\* C8: the margin-of-victory multiplier is at least 1 for every game the
\* fold processes and for every margin 0..MaxMargin, it is exactly 1 for a
\* margin of 0 (as for a margin of 1), and it does not decrease as the
\* margin grows.
C8_MovAtLeastOne ==
  /\ C8_Grid
  /\ Folding =>
       LET margin == Abs(NextGame.home_team_score - NextGame.away_team_score)
       IN  /\ MovMultiplier(margin) >= MovScale
           /\ margin = 0 => MovMultiplier(margin) = MovScale

\* a tie is about to be processed after a game won by MaxScore points
C8_Witness ==
  /\ Folding
  /\ idx >= 2
  /\ IsTie(NextGame)
  /\ Abs(games_df[idx - 1].home_team_score - games_df[idx - 1].away_team_score)
       = MaxScore

\* C9 as stated: a game dated strictly before the game processed just
\* before it stops the fold; the loop never runs on it and the run does not
\* complete.
C9_AbortsOnOrderingViolation ==
  \A i \in 2..Len(games_df) :
    games_df[i].start_date < games_df[i - 1].start_date =>
      /\ idx <= i
      /\ applied[games_df[i]] = 0
      /\ pc # "done"

KnownTeams(g) == g.home_team_id \in TeamIds /\ g.away_team_id \in TeamIds

LeftOut ==
  {g \in dbGames :
     /\ applied[g] = 0
     /\ \/ g.completed /\ (g.home_team_score = NULL \/ g.away_team_score = NULL)
        \/ ~KnownTeams(g)}

\* C11 as stated: when a run that left records out of the fold is over,
\* what it reports to its caller holds the number of those records.
C11_SkippedCountReported ==
  (pc = "done" /\ LeftOut # {}) => SkippedReported = Cardinality(LeftOut)


\* -------------------------------------------------------------------------
\* generate_prediction: what a returned prediction is made of
Returned == pc = "returned"

\* the pre-market spread of the returned prediction (line 196)
BasePrediction ==
  prediction.factor_breakdown.home_field
    + prediction.factor_breakdown.conference
    + prediction.factor_breakdown.weather

\* C12 as stated: the market-value factor is 0 when no market spread is
\* supplied or when the pre-market spread is within 3 points of it; otherwise
\* it is min(0.5 x difference, 4.0) in magnitude, positive when the model's
\* spread is above the market spread and negative when it is below.
C12_MarketValueSigned ==
  Returned =>
    LET v == context.vegas_spread
        d == Abs(BasePrediction - v)
        magnitude == Min(d \div 2, 4 * PointScale)
    IN  prediction.factor_breakdown.betting_value =
          IF v = None \/ d < 3 * PointScale THEN 0
          ELSE IF BasePrediction > v THEN magnitude
          ELSE -magnitude

\* the recommendation margin of lines 224 and 227, 1.5 points
EdgeMargin == (3 * PointScale) \div 2

\* |predicted spread - market spread| of the returned prediction
AbsoluteEdge == Abs(prediction.spread - context.vegas_spread)

\* C13 as stated: a take-home or take-away recommendation is produced exactly
\* when a market spread is present and |predicted spread - market spread|
\* exceeds 1.5 points.
C13_RecommendationIffEdge ==
  Returned =>
    (prediction.recommended_bet # "None"
       <=> (context.vegas_spread # None /\ AbsoluteEdge > EdgeMargin))

\* C13 amended: a recommendation is produced only when a market spread is
\* present, is not 0, and |predicted spread - market spread| exceeds 1.5
\* points; "Take home" only for a predicted spread more than 1.5 above the
\* market, "Take away" only for a non-positive predicted spread.
C13_RecommendationOnlyWithEdge ==
  (Returned /\ prediction.recommended_bet # "None") =>
    /\ context.vegas_spread # None
    /\ context.vegas_spread # 0
    /\ AbsoluteEdge > EdgeMargin
    /\ prediction.recommended_bet = "Take home" =>
         prediction.spread > context.vegas_spread + EdgeMargin
    /\ prediction.recommended_bet = "Take away" => prediction.spread <= 0

C13_Witness ==
  /\ Returned
  /\ prediction.recommended_bet = "Take away"
  /\ AbsoluteEdge > EdgeMargin

\* C14: whenever no market spread is supplied, the returned prediction has no
\* bet recommendation and no edge, whatever the weather, conference and
\* home-field factors are.
C14_NoSpreadNoPlay ==
  (Returned /\ context.vegas_spread = None) =>
    /\ prediction.recommended_bet = "None"
    /\ prediction.edge = None
    /\ prediction.factor_breakdown.betting_value = 0

C14_Witness ==
  /\ Returned
  /\ context.vegas_spread = None
  /\ Abs(prediction.spread) > 6 * PointScale
  /\ prediction.factor_breakdown.weather # 0
  /\ prediction.factor_breakdown.conference # 0
  /\ prediction.factor_breakdown.home_field # 0
  /\ prediction.recommended_bet = "None"

\* the number of non-zero entries of the returned factor_breakdown
NonZeroFactors ==
  Cardinality({f \in DOMAIN prediction.factor_breakdown :
                 prediction.factor_breakdown[f] # 0})

\* C15: the confidence label is High exactly when |predicted spread| > 6 and
\* at least 3 of the four factors are non-zero; otherwise Medium exactly when
\* |predicted spread| > 3 and at least 2 factors are non-zero; otherwise Low.
\* Every prediction has exactly one of the three labels.
C15_ConfidenceLabel ==
  Returned =>
    /\ prediction.confidence \in {"High", "Medium", "Low"}
    /\ DOMAIN prediction.factor_breakdown =
         {"weather", "conference", "home_field", "betting_value"}
    /\ LET high == Abs(prediction.spread) > 6 * PointScale
                     /\ NonZeroFactors >= 3
           medium == ~high /\ Abs(prediction.spread) > 3 * PointScale
                       /\ NonZeroFactors >= 2
       IN  /\ prediction.confidence = "High" <=> high
           /\ prediction.confidence = "Medium" <=> medium
           /\ prediction.confidence = "Low" <=> (~high /\ ~medium)

\* a spread above 6 points with only two non-zero factors
C15_Witness ==
  /\ Returned
  /\ Abs(prediction.spread) > 6 * PointScale
  /\ NonZeroFactors = 2
  /\ prediction.confidence = "Medium"

\* C16: the predicted spread of every returned prediction is the sum of the
\* four entries of factor_breakdown, home field + conference + weather +
\* market value, with home field 2.0 at a non-neutral site and 0 at a neutral
\* site.
C16_SpreadIsSumOfFactors ==
  Returned =>
    /\ prediction.spread =
         prediction.factor_breakdown.home_field
           + prediction.factor_breakdown.conference
           + prediction.factor_breakdown.weather
           + prediction.factor_breakdown.betting_value
    /\ prediction.factor_breakdown.home_field =
         IF context.is_neutral_site THEN 0 ELSE 2 * PointScale

C16_Witness ==
  /\ Returned
  /\ ~context.is_neutral_site
  /\ NonZeroFactors = 4
  /\ prediction.spread # BasePrediction

\* C17: for a dome game the weather factor is exactly +4.0 for every
\* combination of temperature, wind speed and precipitation, present or
\* absent.
C17_DomeIsFlatFour ==
  (Returned /\ context.is_dome) =>
    prediction.factor_breakdown.weather = 4 * PointScale

\* a dome game whose temperature, wind and precipitation would each cost
\* points outdoors
C17_Witness ==
  /\ Returned
  /\ context.is_dome
  /\ context.temperature # None /\ context.temperature < 32
  /\ context.wind_speed # None /\ context.wind_speed > 20
  /\ context.precipitation # None /\ context.precipitation > 0
  /\ prediction.factor_breakdown.weather = 4 * PointScale

\* an outdoor game with no wind and no precipitation data: the weather factor
\* is the temperature contribution alone
TemperatureOnly ==
  /\ Returned
  /\ ~context.is_dome
  /\ context.wind_speed = None
  /\ context.precipitation = None

\* C18 as stated: the temperature contribution is -2.5 below 32 degrees,
\* -1.0 from 32 to 40 degrees inclusive of both ends, -0.5 above 85 degrees
\* and 0 for every other temperature or when the temperature is absent.
C18_TemperatureTiersInclusive ==
  TemperatureOnly =>
    LET t == context.temperature
    IN  prediction.factor_breakdown.weather =
          IF t = None THEN 0
          ELSE IF t < 32 THEN -(5 * PointScale) \div 2
          ELSE IF t <= 40 THEN -PointScale
          ELSE IF t > 85 THEN -PointScale \div 2
          ELSE 0

\* C18 amended: the temperature contribution is -2.5 below 32 degrees, -1.0
\* from 32 degrees up to but not including 40 degrees, -0.5 above 85 degrees
\* and 0 for every other temperature (40 and 85 included) or when the
\* temperature is absent.
C18_TemperatureTiers ==
  TemperatureOnly =>
    LET t == context.temperature
    IN  prediction.factor_breakdown.weather =
          IF t = None THEN 0
          ELSE IF t < 32 THEN -(5 * PointScale) \div 2
          ELSE IF 32 <= t /\ t < 40 THEN -PointScale
          ELSE IF t > 85 THEN -PointScale \div 2
          ELSE 0

\* exactly 40 degrees costs nothing
C18_Witness ==
  /\ TemperatureOnly
  /\ context.temperature = 40
  /\ prediction.factor_breakdown.weather = 0

\* an outdoor game with no temperature and no precipitation data: the weather
\* factor is the wind contribution alone
WindOnly ==
  /\ Returned
  /\ ~context.is_dome
  /\ context.temperature = None
  /\ context.precipitation = None

\* C19 as stated: the wind contribution is -2.0 above 20 mph, -1.0 from 15 to
\* 20 mph inclusive of both ends, and 0 for lower speeds or when the wind
\* speed is absent.
C19_WindTiersInclusive ==
  WindOnly =>
    LET w == context.wind_speed
    IN  prediction.factor_breakdown.weather =
          IF w = None THEN 0
          ELSE IF w > 20 THEN -2 * PointScale
          ELSE IF 15 <= w /\ w <= 20 THEN -PointScale
          ELSE 0

\* C19 amended: the wind contribution is -2.0 above 20 mph, -1.0 above 15 mph
\* up to and including 20 mph, and 0 at 15 mph or less or when the wind speed
\* is absent.
C19_WindTiers ==
  WindOnly =>
    LET w == context.wind_speed
    IN  prediction.factor_breakdown.weather =
          IF w = None THEN 0
          ELSE IF w > 20 THEN -2 * PointScale
          ELSE IF 15 < w /\ w <= 20 THEN -PointScale
          ELSE 0

\* exactly 15 mph costs nothing
C19_Witness ==
  /\ WindOnly
  /\ context.wind_speed = 15
  /\ prediction.factor_breakdown.weather = 0

\* C20: for a non-dome game the weather factor is the sum of the applicable
\* temperature penalty, wind penalty and precipitation penalty (-1.5 when
\* precipitation is present), so it lies between -6.0 and 0 and no penalty is
\* dropped because another one applied.
C20_OutdoorPenaltiesAdd ==
  (Returned /\ ~context.is_dome) =>
    LET precipitation_penalty ==
          IF context.precipitation # None /\ context.precipitation > 0
            THEN -(3 * PointScale) \div 2 ELSE 0
    IN  /\ prediction.factor_breakdown.weather =
             TemperatureImpact(context.temperature)
               + WindImpact(context.wind_speed)
               + precipitation_penalty
        /\ prediction.factor_breakdown.weather >= -6 * PointScale
        /\ prediction.factor_breakdown.weather <= 0

\* a freezing, windy, wet outdoor game
C20_Witness ==
  /\ Returned
  /\ ~context.is_dome
  /\ context.temperature # None /\ context.temperature < 32
  /\ context.wind_speed # None /\ context.wind_speed > 20
  /\ context.precipitation # None /\ context.precipitation > 0
  /\ prediction.factor_breakdown.weather = -6 * PointScale

\* C21: the conference factor is antisymmetric under swapping sides,
\* conference_factor(home = A, away = B) = -conference_factor(home = B,
\* away = A) for listed and unlisted conferences, and it is 0 when A = B.
C21_ConferenceAntisymmetric ==
  Returned =>
    /\ prediction.factor_breakdown.conference =
         -ConferenceScore(context.away_conference, context.home_conference)
    /\ context.home_conference = context.away_conference =>
         prediction.factor_breakdown.conference = 0

\* a power conference at home against an unlisted conference
C21_Witness ==
  /\ Returned
  /\ context.home_conference \in power5
  /\ context.away_conference \notin DOMAIN conference_power_ratings
  /\ prediction.factor_breakdown.conference > 0
  /\ ConferenceScore(context.away_conference, context.home_conference) < 0

\* C22: the conference factor is 0.3 x (home power - away power), with 0 for a
\* conference absent from the power table, plus 1.5 when only the home side
\* is in the power-conference set, minus 1.5 when only the away side is, and
\* no flat adjustment when both or neither are.
C22_ConferenceFormula ==
  Returned =>
    LET power(c) == IF c \in DOMAIN conference_power_ratings
                      THEN conference_power_ratings[c] * (PointScale \div 10)
                      ELSE 0
        home_in == context.home_conference \in power5
        away_in == context.away_conference \in power5
        flat == IF home_in /\ ~away_in THEN (3 * PointScale) \div 2
                ELSE IF away_in /\ ~home_in THEN -(3 * PointScale) \div 2
                ELSE 0
    IN  10 * (prediction.factor_breakdown.conference - flat) =
          3 * (power(context.home_conference) - power(context.away_conference))

\* an unlisted conference at home against a power conference
C22_Witness ==
  /\ Returned
  /\ context.home_conference \notin DOMAIN conference_power_ratings
  /\ context.away_conference = "SEC"
  /\ prediction.factor_breakdown.conference = -(321 * PointScale) \div 100

\* C23: generate_prediction and the four sub-score functions never modify the
\* engine (the conference power table, the scoring weights) or the arguments
\* of a call in progress, and the prediction a call returns is the one its
\* context determines, whatever was scored before it or is being scored by
\* other callers.
C23_PureUnderInterleaving ==
  [][/\ engine' = engine
     /\ engine = EngineInit
     /\ \A w \in DOMAIN callers :
          /\ callers[w].pc \notin {"idle", "returned"} =>
               callers'[w].context = callers[w].context
          /\ callers'[w].pc = "returned" =>
               callers'[w].result =
                 GeneratePredictionResult(callers'[w].context)]_vars

\* a caller has its second prediction back while another caller is in the
\* middle of scoring a different context with an unlisted conference
C23_Witness ==
  /\ pc = "shared"
  /\ callers[1].pc = "returned"
  /\ callers[1].calls = MaxCalls
  /\ callers[2].pc = "betting"
  /\ callers[2].context # callers[1].context
  /\ callers[2].context.away_conference = "Ivy"
  /\ callers[1].result = GeneratePredictionResult(callers[1].context)

\* -------------------------------------------------------------------------
\* generate_game_prediction: what a returned prediction is made of
Predicted == pc = "predicted"

\* a rating of the row is absent
Unrated == game_row.home_elo = NaN \/ game_row.away_elo = NaN

\* the entries of key_factors that name the ELO factor
EloEntries ==
  {i \in DOMAIN game_prediction.key_factors :
     game_prediction.key_factors[i].factor = "ELO edge"}

WithRatings(home_elo, away_elo) ==
  GenerateGamePredictionResult(
    [game_row EXCEPT !.home_elo = home_elo, !.away_elo = away_elo])

GamesPlayed(t, n) ==
  Cardinality({i \in 1..n :
                 games_df[i].home_team_id = t \/ games_df[i].away_team_id = t})

\* every history is the team's seed, then one snapshot per game the team has
\* played so far, the last one being the team's current rating
HistoryShape ==
  \A t \in DOMAIN elo_history :
    /\ Len(elo_history[t]) = 1 + GamesPlayed(t, idx - 1)
    /\ elo_history[t][1] = InitialElo(TeamConference[t])
    /\ elo_history[t][Len(elo_history[t])] = team_elos[t]

\* C25: after any prefix of the fold each team's rating history is
\* append-only: the team's seed followed by exactly one snapshot per game the
\* team has played so far, earlier entries are never rewritten, and the last
\* entry is the team's current rating.
C25_HistoryAppendOnly ==
  [][/\ HistoryShape'
     /\ \A t \in DOMAIN elo_history :
          /\ t \in DOMAIN elo_history'
          /\ Len(elo_history'[t]) >= Len(elo_history[t])
          /\ SubSeq(elo_history'[t], 1, Len(elo_history[t])) = elo_history[t]]_vars

\* one team has played twice, another not at all
C25_Witness ==
  /\ pc \in {"fold", "done"}
  /\ \E t \in DOMAIN elo_history :
       /\ Len(elo_history[t]) = 3
       /\ elo_history[t][2] # elo_history[t][1]
       /\ elo_history[t][3] # elo_history[t][2]
  /\ \E u \in DOMAIN elo_history : Len(elo_history[u]) = 1

\* -------------------------------------------------------------------------
\* C26 as stated: model and market are compared in one sign convention: when
\* the pre-market prediction is home by x points (+x) and the market has the
\* home team favored by x points (market spread -x), the difference is 0, the
\* market-value factor is 0 and no bet is recommended.
C26_SameLineNoValue ==
  (/\ Returned
   /\ context.vegas_spread # None
   /\ BasePrediction > 0
   /\ context.vegas_spread = -BasePrediction) =>
    /\ prediction.factor_breakdown.betting_value = 0
    /\ prediction.recommended_bet = "None"

\* C27 as stated: a market spread of exactly 0 is a present market line
\* everywhere: whenever vegas_spread is not None the returned edge is
\* |predicted spread - vegas_spread|, not null, and the recommendation is
\* decided by the rule used for a non-zero spread.
C27_PickEmIsALine ==
  (Returned /\ context.vegas_spread # None) =>
    /\ prediction.edge # None
    /\ prediction.edge = AbsoluteEdge
    /\ prediction.recommended_bet =
         IF prediction.spread > 0
           THEN IF prediction.spread > context.vegas_spread + EdgeMargin
                  THEN "Take home" ELSE "None"
           ELSE IF Abs(prediction.spread)
                     > Abs(context.vegas_spread) + EdgeMargin
                  THEN "Take away" ELSE "None"

\* -------------------------------------------------------------------------
\* for every pair of ratings of the grid and every decided score, the winner's
\* change is above 0 and the loser's below 0
C28_Grid ==
  \A h \in RatingGrid, a \in RatingGrid, s \in ScoreGrid :
    /\ s[1] > s[2] =>
         /\ HomeChange(h, a, s[1], s[2], KFactor, HomeFieldAdvantage) > 0
         /\ AwayChange(h, a, s[1], s[2], KFactor, HomeFieldAdvantage) < 0
    /\ s[2] > s[1] =>
         /\ HomeChange(h, a, s[1], s[2], KFactor, HomeFieldAdvantage) < 0
         /\ AwayChange(h, a, s[1], s[2], KFactor, HomeFieldAdvantage) > 0

\* C28: processing a game that is not a tie strictly raises the winner's
\* rating and strictly lowers the loser's, for the pre-game ratings of every
\* game the fold processes and for every pair of ratings of the grid.
C28_WinnerRisesLoserFalls ==
  [][/\ C28_Grid
     /\ (pc = "fold" /\ idx' = idx + 1 /\ ~IsTie(NextGame)) =>
          LET h == NextGame.home_team_id
              a == NextGame.away_team_id
              home_won == NextGame.home_team_score > NextGame.away_team_score
          IN  IF home_won
                THEN /\ team_elos'[h] > team_elos[h]
                     /\ team_elos'[a] < team_elos[a]
                ELSE /\ team_elos'[h] < team_elos[h]
                     /\ team_elos'[a] > team_elos[a]]_vars

\* a lower-rated away team is about to beat a home team whose rating has left
\* its seed
C28_Witness ==
  /\ Folding
  /\ idx >= 2
  /\ NextGame.away_team_score > NextGame.home_team_score
  /\ PreAway < PreHome
  /\ PreHome # InitialElo(TeamConference[NextGame.home_team_id])
  /\ DeltaAway > 0
  /\ DeltaHome < 0

\* the lines matched to the i-th processed game
MatchedLines(i) ==
  LET game_lines == MatchLines(fetched_games[i], betting_lines, 1)
  IN  IF game_lines = <<>> THEN <<>> ELSE game_lines[1].lines

\* C30: when the betting lines matched to a game include a line of the
\* consensus provider, the spread and over/under extracted for the game are
\* those of a consensus line, whatever its position in the list
C30_ConsensusLinePreferred ==
  \A i \in DOMAIN processed_games :
    (\E k \in DOMAIN MatchedLines(i) :
        MatchedLines(i)[k].provider = "consensus")
    => \E k \in DOMAIN MatchedLines(i) :
         /\ MatchedLines(i)[k].provider = "consensus"
         /\ processed_games[i].spread = MatchedLines(i)[k].spread
         /\ processed_games[i].over_under = MatchedLines(i)[k].over_under

=========================================================================
